---- MODULE Spec2Model ----
(***************************************************************************)
(* Model of sfcc-d, a command-line client for Salesforce Commerce Cloud     *)
(* sandboxes: the expiring cache (useCachedResult over localStorage), the   *)
(* token and sandbox-list refresh, sandbox resolution by string, the batch  *)
(* start/stop/restart dispatch and code-version activation.                 *)
(*                                                                         *)
(* Strings that the program searches or compares character by character    *)
(* (host names, ids, search strings) are sequences of code units (small     *)
(* naturals).  Times are in seconds since the epoch of the model.           *)
(***************************************************************************)
EXTENDS Integers, Sequences, FiniteSets, TLC

VARIABLES
    now,            \* Date.now(), the wall clock
    localStorage,   \* the durable key-value store: storage key -> stored text
    ucr,            \* the useCachedResult call in progress or last finished
    lastStored,     \* history: per key, the last call that stored an entry
    calls,          \* history: the number of calls the cache harness has made
    pc,             \* where the process of the tool is
    runs,           \* history: the number of times the tool was started
    sfccAuthToken,  \* let sfccAuthToken
    sandboxList,    \* let sandboxList
    cmd,            \* the command line given to program.parse()
    sbs,            \* the sandboxes the command resolved
    idx,            \* position of the batch loop in sbs
    requests,       \* history: operation requests sent, in order
    log,            \* history: messages logged by the command, in order
    codeVersions,   \* the array the action got from getCodeVersions and passed
                    \* to activateCodeVersion as allCodeVersions (one object)
    cv,             \* the code version activateCodeVersion found
    patches,        \* history: code-version ids sent in a PATCH
    answer,         \* history: the last answer of the operation endpoint
    env,            \* const env = await load(...): the variables of the .env file
    tokenAt,        \* history: when the token was issued and when handed to run()
    cred,           \* the cred command: time, from, to, usage calls sent
    otherUcr        \* the call of a second invocation running meanwhile

cacheVars == <<now, localStorage, ucr, lastStored>>

cliVars == <<pc, runs, sfccAuthToken, sandboxList, cmd, sbs, idx, requests, log,
             codeVersions, cv, patches, answer, env, tokenAt, cred, otherUcr>>

vars == <<now, localStorage, ucr, lastStored, calls, pc, runs, sfccAuthToken,
          sandboxList, cmd, sbs, idx, requests, log, codeVersions, cv, patches,
          answer, env, tokenAt, cred, otherUcr>>

-----------------------------------------------------------------------------
(* Bounds of the model *)

MaxTicks == 2        \* the clock advances at most MaxTicks times
MaxRuns == 2         \* the tool is started at most MaxRuns times
MaxCalls == 2        \* useCachedResult is called at most MaxCalls times
MaxDuration == 2     \* maxDuration of a harness call ranges over 1..MaxDuration
MaxBatchTicks == 2   \* the clock advances at most MaxBatchTicks times in a batch
MaxMinutes == 10     \* minutesUp and minutesDown range over 0..MaxMinutes

-----------------------------------------------------------------------------
(* JavaScript values that the cached functions produce *)

Undefined == [type |-> "undefined"]
Str(s) == [type |-> "string", str |-> s]
Arr(a) == [type |-> "array", arr |-> a]

StorageKeys == {"sfccAuthToken", "sandboxList"}

(* Texts a storage key can hold.  "absent" is getItem's null.  "object" is *)
(* the text of a JSON object; keys is the set of its property names.       *)
Absent == [kind |-> "absent", keys |-> {}, value |-> Undefined, exp |-> 0]
EmptyText == [kind |-> "empty", keys |-> {}, value |-> Undefined, exp |-> 0]
GarbageText == [kind |-> "garbage", keys |-> {}, value |-> Undefined, exp |-> 0]
NullText == [kind |-> "jsonNull", keys |-> {}, value |-> Undefined, exp |-> 0]
EmptyObjectText == [kind |-> "object", keys |-> {}, value |-> Undefined, exp |-> 0]

(* JSON.stringify({ value, exp }): a property whose value is undefined is  *)
(* left out of the text.                                                   *)
JSON_stringify(value, exp) ==
    [kind |-> "object",
     keys |-> IF value = Undefined THEN {"exp"} ELSE {"value", "exp"},
     value |-> value,
     exp |-> exp]

(* JSON.parse(text) followed by the destructuring { value, exp }: a syntax *)
(* error for text that is no JSON, a type error for the JSON text null.    *)
JSON_parse_throws(text) == text.kind \in {"garbage", "jsonNull"}

ParsedValue(text) == IF "value" \in text.keys THEN text.value ELSE Undefined

NotExpired_Inclusive(text, t) == "exp" \in text.keys /\ t <= text.exp

NotExpired_Reversed(text, t) == "exp" \in text.keys /\ t > text.exp

(* Date.now() < exp; the comparison with a missing (undefined) exp is false *)
NotExpired(text, t) == "exp" \in text.keys /\ t < text.exp

(* a string is truthy unless it is empty; null is falsy *)
Truthy(text) == text.kind \notin {"absent", "empty"}

-----------------------------------------------------------------------------
(* useCachedResult(result, storageKey, maxDuration, invalidate) *)

CacheDecision_IgnoreInvalidate(cachedResult, invalidate, t) ==
    IF Truthy(cachedResult)
    THEN IF JSON_parse_throws(cachedResult) THEN "throw"
         ELSE IF NotExpired(cachedResult, t) THEN "hit"
         ELSE "compute"
    ELSE "compute"

(* What the synchronous head of the call does with the text read from the  *)
(* store: return the stored value ("hit"), throw out of JSON.parse or the  *)
(* destructuring ("throw"), or go on to call result() ("compute").         *)
CacheDecision(cachedResult, invalidate, t) ==
    IF ~invalidate /\ Truthy(cachedResult)
    THEN IF JSON_parse_throws(cachedResult) THEN "throw"
         ELSE IF NotExpired(cachedResult, t) THEN "hit"
         ELSE "compute"
    ELSE "compute"

ExpiryInstant_NoDuration(t, maxDuration) == t

(* instant = Instant.fromEpochMilliseconds(Date.now()).add(maxDuration),   *)
(* taken before result() is awaited                                        *)
ExpiryInstant(t, maxDuration) == t + maxDuration

NeverStored ==
    [set |-> FALSE, value |-> Undefined, invalidate |-> FALSE, startedAt |-> 0,
     finishedAt |-> 0, maxDuration |-> 0]

NoCall ==
    [phase |-> "idle", storageKey |-> "sfccAuthToken", maxDuration |-> 0,
     invalidate |-> FALSE, startedAt |-> 0, instant |-> 0, invoked |-> FALSE,
     computeOutcome |-> "none",
     resultValue |-> Undefined, returned |-> Undefined,
     before |-> [k \in StorageKeys |-> Absent],
     prev |-> NeverStored]

(* The call up to its first await: read the store, return a fresh value,   *)
(* or fix the expiry instant and start result().                           *)
useCachedResult_Begin(storageKey, maxDuration, invalidate) ==
    LET cachedResult == localStorage[storageKey]
        d == CacheDecision(cachedResult, invalidate, now)
    IN  /\ ucr' = [phase |-> CASE d = "hit" -> "returned"
                               [] d = "throw" -> "threw"
                               [] OTHER -> "awaiting",
                   storageKey |-> storageKey,
                   maxDuration |-> maxDuration,
                   invalidate |-> invalidate,
                   startedAt |-> now,
                   instant |-> IF d = "compute"
                               THEN ExpiryInstant(now, maxDuration) ELSE 0,
                   invoked |-> (d = "compute"),
                   computeOutcome |-> "none",
                   resultValue |-> Undefined,
                   returned |-> IF d = "hit" THEN ParsedValue(cachedResult)
                                ELSE Undefined,
                   before |-> localStorage,
                   prev |-> lastStored[storageKey]]
        /\ UNCHANGED <<now, localStorage, lastStored>>

useCachedResult_Resolve_TornWrite(resultValue) ==
    /\ ucr.phase = "awaiting"
    /\ localStorage' = [localStorage EXCEPT
                          ![ucr.storageKey] =
                              JSON_stringify(resultValue,
                                             IF "exp" \in localStorage[ucr.storageKey].keys
                                             THEN localStorage[ucr.storageKey].exp
                                             ELSE ucr.instant)]
    /\ ucr' = [ucr EXCEPT !.phase = "returned",
                          !.computeOutcome = "resolved",
                          !.resultValue = resultValue,
                          !.returned = resultValue]
    /\ lastStored' = [lastStored EXCEPT
                        ![ucr.storageKey] =
                            [set |-> TRUE, value |-> resultValue,
                             invalidate |-> ucr.invalidate,
                             startedAt |-> ucr.startedAt, finishedAt |-> now,
                             maxDuration |-> ucr.maxDuration]]
    /\ UNCHANGED now

useCachedResult_Resolve_ExpiryAtFinish(resultValue) ==
    /\ ucr.phase = "awaiting"
    /\ localStorage' = [localStorage EXCEPT
                          ![ucr.storageKey] =
                              JSON_stringify(resultValue,
                                             ExpiryInstant(now, ucr.maxDuration))]
    /\ ucr' = [ucr EXCEPT !.phase = "returned",
                          !.computeOutcome = "resolved",
                          !.resultValue = resultValue,
                          !.returned = resultValue]
    /\ lastStored' = [lastStored EXCEPT
                        ![ucr.storageKey] =
                            [set |-> TRUE, value |-> resultValue,
                             invalidate |-> ucr.invalidate,
                             startedAt |-> ucr.startedAt, finishedAt |-> now,
                             maxDuration |-> ucr.maxDuration]]
    /\ UNCHANGED now

(* result() resolved with resultValue: store the entry and return it *)
useCachedResult_Resolve(resultValue) ==
    /\ ucr.phase = "awaiting"
    /\ localStorage' = [localStorage EXCEPT
                          ![ucr.storageKey] = JSON_stringify(resultValue, ucr.instant)]
    /\ ucr' = [ucr EXCEPT !.phase = "returned",
                          !.computeOutcome = "resolved",
                          !.resultValue = resultValue,
                          !.returned = resultValue]
    /\ lastStored' = [lastStored EXCEPT
                        ![ucr.storageKey] =
                            [set |-> TRUE, value |-> resultValue,
                             invalidate |-> ucr.invalidate,
                             startedAt |-> ucr.startedAt, finishedAt |-> now,
                             maxDuration |-> ucr.maxDuration]]
    /\ UNCHANGED now

useCachedResult_Reject_StoresEmpty ==
    /\ ucr.phase = "awaiting"
    /\ localStorage' = [localStorage EXCEPT
                          ![ucr.storageKey] = JSON_stringify(Undefined, ucr.instant)]
    /\ ucr' = [ucr EXCEPT !.phase = "threw", !.computeOutcome = "rejected"]
    /\ UNCHANGED <<now, lastStored>>

(* result() rejected: the await throws, nothing after it runs *)
useCachedResult_Reject ==
    /\ ucr.phase = "awaiting"
    /\ ucr' = [ucr EXCEPT !.phase = "threw", !.computeOutcome = "rejected"]
    /\ UNCHANGED <<now, localStorage, lastStored>>

(* result() called Deno.exit: the process ends inside the await *)
useCachedResult_Exit ==
    /\ ucr.phase = "awaiting"
    /\ ucr' = [ucr EXCEPT !.phase = "exited", !.computeOutcome = "exited"]
    /\ UNCHANGED <<now, localStorage, lastStored>>

(* the clock advances by d *)
Tick(d) ==
    /\ now' = now + d
    /\ UNCHANGED <<localStorage, ucr, lastStored>>

-----------------------------------------------------------------------------
(* Strings and arrays *)

(* a.localeCompare(b) for strings of lower-case letters and digits: the    *)
(* first differing code unit decides, a proper prefix comes first          *)
RECURSIVE localeCompare(_, _)
localeCompare(a, b) ==
    IF a = <<>> THEN (IF b = <<>> THEN 0 ELSE -1)
    ELSE IF b = <<>> THEN 1
    ELSE IF Head(a) < Head(b) THEN -1
    ELSE IF Head(a) > Head(b) THEN 1
    ELSE localeCompare(Tail(a), Tail(b))

StartsWith(h, s) == Len(s) <= Len(h) /\ SubSeq(h, 1, Len(s)) = s

(* h.includes(s): s occurs in h at some position *)
RECURSIVE includes(_, _)
includes(h, s) ==
    \/ StartsWith(h, s)
    \/ h # <<>> /\ includes(Tail(h), s)

(* Array.prototype.sort((a, b) => a[field].localeCompare(b[field])): the   *)
(* sort is stable; done here by insertion                                  *)
RECURSIVE InsertByField(_, _, _)
InsertByField(x, sorted, field) ==
    IF sorted = <<>> THEN <<x>>
    ELSE IF localeCompare(Head(sorted)[field], x[field]) <= 0
         THEN <<Head(sorted)>> \o InsertByField(x, Tail(sorted), field)
         ELSE <<x>> \o sorted

RECURSIVE SortByField(_, _)
SortByField(list, field) ==
    IF list = <<>> THEN <<>>
    ELSE InsertByField(list[Len(list)],
                       SortByField(SubSeq(list, 1, Len(list) - 1), field),
                       field)

Reverse_Not(list) == list

(* Array.prototype.reverse() *)
Reverse(list) == [i \in 1..Len(list) |-> list[Len(list) + 1 - i]]

-----------------------------------------------------------------------------
(* The process of the tool: module start, run(), the command *)

(* the cred command not run: let usage, from, to, and no call sent *)
NoCred ==
    [realm |-> Undefined, time |-> Undefined, from |-> Undefined,
     to |-> Undefined, sent |-> <<>>, usage |-> Undefined]

ProcessOff ==
    /\ pc = "off"
    /\ runs = 0
    /\ sfccAuthToken = Undefined
    /\ sandboxList = Undefined
    /\ cmd = [name |-> "none", operation |-> "none", findStr |-> <<>>,
              host |-> <<>>, codeVersion |-> <<>>]
    /\ sbs = <<>>
    /\ idx = 0
    /\ requests = <<>>
    /\ log = <<>>
    /\ codeVersions = Undefined
    /\ cv = [found |-> FALSE]
    /\ patches = <<>>
    /\ otherUcr = NoCall
    /\ cred = NoCred
    /\ tokenAt = [issuedAt |-> 0, handedAt |-> 0]
    /\ answer = [received |-> FALSE]

(* what load() returns for a .env file, by the place each variable takes   *)
(* in the body of the token request: SF_API_ID as client_id, SF_API_SECRET *)
(* as client_secret; each is set or is missing from the file               *)
EnvFiles ==
    [client_id : {Str("id"), Undefined},
     client_secret : {Str("secret"), Undefined}]

Configured == [client_id |-> Str("id"), client_secret |-> Str("secret")]

(* a fresh installation: nothing stored, the tool not yet started *)
Init ==
    /\ env = Configured
    /\ now = 0
    /\ localStorage = [k \in StorageKeys |-> Absent]
    /\ ucr = NoCall
    /\ lastStored = [k \in StorageKeys |-> NeverStored]
    /\ calls = 0
    /\ ProcessOff

(* durations given to useCachedResult, in seconds *)
SandboxListTtl == 24 * 14 * 3600

TokenTtl_AsListTtl == SandboxListTtl

TokenTtl == 29 * 60 + 55

(* The sandboxes of the remote platform.  Code units: 1 is "a", 2 is "b". *)
RemoteSandboxes ==
    { [id |-> <<1, 1>>, hostName |-> <<1, 2>>],
      [id |-> <<1, 2>>, hostName |-> <<2, 1, 2>>],
      [id |-> <<2>>,    hostName |-> <<1, 1>>] }

(* every order of every subset of S, as arrays *)
ArraysOf(S) ==
    UNION { { f \in [1..Cardinality(T) -> T] :
                \A i, j \in 1..Cardinality(T) : f[i] = f[j] => i = j }
            : T \in SUBSET S }

(* answers of the access-token endpoint: a body with access_token, a body  *)
(* without it, or no JSON body at all (fetch or res.json() rejects)        *)
AuthResponses ==
    { [rejects |-> FALSE, access_token |-> Str("t1")],
      [rejects |-> FALSE, access_token |-> Undefined],
      [rejects |-> TRUE, access_token |-> Undefined] }

(* getSfccAuthToken(): return json.access_token *)
getSfccAuthToken(res) == res.access_token

(* answers of the sandbox-list endpoint *)
ListResponses ==
    { [rejects |-> FALSE, code |-> 200, data |-> d] : d \in ArraysOf(RemoteSandboxes) }
    \cup { [rejects |-> FALSE, code |-> 401, data |-> <<>>],
           [rejects |-> TRUE, code |-> 0, data |-> <<>>] }

getSandboxList_Unsorted(data) == data

(* getSandboxList(): resJson.data.sort(by hostName); return resJson.data *)
getSandboxList(data) == SortByField(data, "hostName")

SandboxMatches_HostNameOnly(sb, findStr) == includes(sb.hostName, findStr)

(* sb.hostName.includes(findStr) || sb.id === findStr *)
SandboxMatches(sb, findStr) == includes(sb.hostName, findStr) \/ sb.id = findStr

getSandboxesByString_AllOnMiss(list, findStr) ==
    IF SelectSeq(list, LAMBDA sb : SandboxMatches(sb, findStr)) = <<>>
    THEN list
    ELSE SelectSeq(list, LAMBDA sb : SandboxMatches(sb, findStr))

(* getSandboxesByString(findStr): sandboxList.filter(...) *)
getSandboxesByString(list, findStr) ==
    SelectSeq(list, LAMBDA sb : SandboxMatches(sb, findStr))

Operations == {"start", "stop", "restart"}

FindStrs == { <<>>, <<1, 1>>, <<1, 2>>, <<2, 1>>, <<2, 2>>, <<2>> }

(* answers of the sandbox operation endpoint: no answer (fetch rejects),   *)
(* or an HTTP status with a body that is no JSON, or JSON with a code and  *)
(* with or without error.message                                           *)
OpResponses ==
    { [rejects |-> TRUE, status |-> 0, json |-> FALSE, code |-> 0, hasError |-> FALSE] }
    \cup { [rejects |-> FALSE, status |-> st, json |-> FALSE, code |-> 0, hasError |-> FALSE]
             : st \in {200, 201, 500} }
    \cup { [rejects |-> FALSE, status |-> st, json |-> TRUE, code |-> 201, hasError |-> FALSE]
             : st \in {200, 201, 500} }
    \cup { [rejects |-> FALSE, status |-> st, json |-> TRUE, code |-> 400, hasError |-> e]
             : st \in {200, 201, 500}, e \in BOOLEAN }

Ended == {"off", "done", "exited", "crashed"}

AwaitingRemote ==
    {"getSfccAuthToken", "getSandboxList", "runSandboxOperation",
     "getCodeVersions", "activateCodeVersion"}

NoCommand ==
    [name |-> "none", operation |-> "none", findStr |-> <<>>, host |-> <<>>,
     codeVersion |-> <<>>]

(* instants the clock can show when the tool is started: between two runs *)
(* no time passes, or one of the two durations                            *)
Instants ==
    { a * TokenTtl + b * SandboxListTtl :
        a \in 0..MaxTicks, b \in 0..MaxTicks }

(* the tool is started d seconds after it last ended: a new process, the   *)
(* store is what the last one left                                         *)
ProcessStartAfter(d) ==
    /\ pc \in Ended
    /\ runs < MaxRuns
    /\ now' = now + d
    /\ runs' = runs + 1
    /\ pc' = "updateToken"
    /\ sfccAuthToken' = Undefined
    /\ sandboxList' = Undefined
    /\ cmd' = NoCommand
    /\ sbs' = <<>>
    /\ idx' = 0
    /\ requests' = <<>>
    /\ log' = <<>>
    /\ codeVersions' = Undefined
    /\ cv' = [found |-> FALSE]
    /\ patches' = <<>>
    /\ answer' = [received |-> FALSE]
    /\ cred' = NoCred
    /\ ucr' = NoCall
    /\ UNCHANGED <<localStorage, lastStored, calls, env, tokenAt,
                   otherUcr>>

ProcessStart ==
    \E d \in {0, TokenTtl, SandboxListTtl} :
        /\ now + d \in { t \in Instants : t <= MaxTicks * SandboxListTtl }
        /\ ProcessStartAfter(d)

(* updateToken(): sfccAuthToken = await useCachedResult(getSfccAuthToken,  *)
(* "sfccAuthToken", 29 min 55 s)                                           *)
updateToken_Call ==
    /\ pc = "updateToken"
    /\ useCachedResult_Begin("sfccAuthToken", TokenTtl, FALSE)
    /\ pc' = CASE ucr'.phase = "returned" -> "updateSandboxList"
               [] ucr'.phase = "threw" -> "crashed"
               [] OTHER -> "getSfccAuthToken"
    /\ sfccAuthToken' = IF ucr'.phase = "returned" THEN ucr'.returned
                        ELSE sfccAuthToken
    /\ tokenAt' = IF ucr'.phase = "returned"
                  THEN [tokenAt EXCEPT !.handedAt = now]
                  ELSE tokenAt
    /\ UNCHANGED <<calls, runs, sandboxList, cmd, sbs, idx, requests, log,
                   codeVersions, cv, patches, answer, env, cred, otherUcr>>

(* the access-token endpoint answers *)
getSfccAuthToken_Response ==
    /\ pc = "getSfccAuthToken"
    /\ \E res \in AuthResponses :
          IF res.rejects
          THEN /\ useCachedResult_Reject
               /\ pc' = "crashed"
               /\ UNCHANGED <<sfccAuthToken, tokenAt>>
          ELSE /\ useCachedResult_Resolve(getSfccAuthToken(res))
               /\ sfccAuthToken' = getSfccAuthToken(res)
               /\ tokenAt' = IF getSfccAuthToken(res).type = "string"
                             THEN [issuedAt |-> now, handedAt |-> now]
                             ELSE [tokenAt EXCEPT !.handedAt = now]
               /\ pc' = "updateSandboxList"
    /\ UNCHANGED <<calls, runs, sandboxList, cmd, sbs, idx, requests, log,
                   codeVersions, cv, patches, answer, env, cred, otherUcr>>

(* what follows updateSandboxList: run() goes on to program.parse(), the   *)
(* list command prints the list and ends                                   *)
AfterSandboxList(list) ==
    IF cmd.name = "list"
    THEN /\ pc' = "done"
         /\ log' = Append(log, [level |-> "print", list |-> list])
    ELSE /\ pc' = "parse"
         /\ UNCHANGED log

InvalidateArgument_Default(name) == FALSE

(* the argument of updateSandboxList: run() calls updateSandboxList() with *)
(* the default (false), the list command calls updateSandboxList(true)     *)
InvalidateArgument(name) == name = "list"

(* updateSandboxList(invalidate): sandboxList = await useCachedResult(     *)
(* () => getSandboxList(sfccAuthToken), "sandboxList", 14 days, invalidate)*)
updateSandboxList_Call ==
    /\ pc = "updateSandboxList"
    /\ useCachedResult_Begin("sandboxList", SandboxListTtl,
                             InvalidateArgument(cmd.name))
    /\ CASE ucr'.phase = "returned" ->
              /\ sandboxList' = ucr'.returned
              /\ AfterSandboxList(ucr'.returned)
         [] ucr'.phase = "threw" ->
              /\ pc' = "crashed"
              /\ UNCHANGED <<sandboxList, log>>
         [] OTHER ->
              /\ pc' = "getSandboxList"
              /\ UNCHANGED <<sandboxList, log>>
    /\ UNCHANGED <<calls, runs, sfccAuthToken, cmd, sbs, idx, requests,
                   codeVersions, cv, patches, answer, env, tokenAt, cred,
                   otherUcr>>

(* the sandbox-list endpoint answers *)
getSandboxList_Response ==
    /\ pc = "getSandboxList"
    /\ \E res \in ListResponses :
          IF res.rejects
          THEN /\ useCachedResult_Reject
               /\ pc' = "crashed"
               /\ UNCHANGED <<sandboxList, log>>
          ELSE IF res.code = 200
          THEN /\ useCachedResult_Resolve(Arr(getSandboxList(res.data)))
               /\ sandboxList' = Arr(getSandboxList(res.data))
               /\ AfterSandboxList(Arr(getSandboxList(res.data)))
          ELSE /\ useCachedResult_Exit
               /\ pc' = "exited"
               /\ log' = Append(log, [level |-> "error", list |-> Undefined])
               /\ UNCHANGED sandboxList
    /\ UNCHANGED <<calls, runs, sfccAuthToken, cmd, sbs, idx, requests,
                   codeVersions, cv, patches, answer, env, tokenAt, cred,
                   otherUcr>>

(* program.parse() runs the list command: await updateSandboxList(true) *)
Command_list ==
    /\ pc = "parse"
    /\ cmd' = [NoCommand EXCEPT !.name = "list"]
    /\ pc' = "updateSandboxList"
    /\ UNCHANGED <<cacheVars, calls, runs, sfccAuthToken, sandboxList, sbs,
                   idx, requests, log, codeVersions, cv, patches, answer,
                   env, tokenAt, cred, otherUcr>>

(* runSandboxOperation(operation, sandboxId) up to its fetch *)
OperationRequest(operation, sb) ==
    [operation |-> operation, sandboxId |-> sb.id, token |-> sfccAuthToken,
     sentAt |-> now]

Command_operation_AllAtOnce ==
    /\ pc = "parse"
    /\ sandboxList.type = "array"
    /\ \E operation \in Operations, findStr \in FindStrs :
          LET found == getSandboxesByString(sandboxList.arr, findStr)
          IN  /\ cmd' = [name |-> "operation", operation |-> operation,
                         findStr |-> findStr]
              /\ sbs' = found
              /\ IF found = <<>>
                 THEN /\ pc' = "done"
                      /\ idx' = 0
                      /\ UNCHANGED requests
                 ELSE /\ pc' = "runSandboxOperation"
                      /\ idx' = 1
                      /\ requests' = requests \o
                            [i \in 1..Len(found) |->
                                OperationRequest(operation, found[i])]
    /\ UNCHANGED <<cacheVars, calls, runs, sfccAuthToken, sandboxList, log,
                   codeVersions, cv, patches, answer, env, tokenAt, cred,
                   otherUcr>>

(* program.parse() runs start, stop or restart: resolve, then the loop up  *)
(* to the first await                                                      *)
Command_operation ==
    /\ pc = "parse"
    /\ sandboxList.type = "array"
    /\ \E operation \in Operations, findStr \in FindStrs :
          LET found == getSandboxesByString(sandboxList.arr, findStr)
          IN  /\ cmd' = [name |-> "operation", operation |-> operation,
                         findStr |-> findStr]
              /\ sbs' = found
              /\ IF found = <<>>
                 THEN /\ pc' = "done"
                      /\ idx' = 0
                      /\ UNCHANGED requests
                 ELSE /\ pc' = "runSandboxOperation"
                      /\ idx' = 1
                      /\ requests' = Append(requests,
                                            OperationRequest(operation, found[1]))
    /\ UNCHANGED <<cacheVars, calls, runs, sfccAuthToken, sandboxList, log,
                   codeVersions, cv, patches, answer, env, tokenAt, cred,
                   otherUcr>>

NextTarget_SameTargetAgain ==
    IF idx < Len(sbs)
    THEN /\ idx' = idx + 1
         /\ requests' = Append(requests,
                               OperationRequest(cmd.operation, sbs[idx]))
         /\ pc' = "runSandboxOperation"
    ELSE /\ pc' = "done"
         /\ UNCHANGED <<idx, requests>>

(* for (const sb of sbs): the next turn of the loop, or its end *)
NextTarget ==
    IF idx < Len(sbs)
    THEN /\ idx' = idx + 1
         /\ requests' = Append(requests,
                               OperationRequest(cmd.operation, sbs[idx + 1]))
         /\ pc' = "runSandboxOperation"
    ELSE /\ pc' = "done"
         /\ UNCHANGED <<idx, requests>>

OperationOutcome_NoStatusCheck(res) ==
    CASE res.rejects -> "reject"
      [] ~res.json -> "reject"
      [] res.code = 201 -> "info"
      [] res.hasError -> "error"
      [] OTHER -> "reject"

(* what runSandboxOperation does with the answer of its fetch: the promise *)
(* rejects (fetch, res.json() or the read of error.message throws), the    *)
(* process exits on a status other than 200 and 201, or the function logs  *)
(* an info or an error message and returns                                 *)
OperationOutcome(res) ==
    CASE res.rejects -> "reject"
      [] res.status # 200 /\ res.status # 201 -> "exit"
      [] ~res.json -> "reject"
      [] res.code = 201 -> "info"
      [] res.hasError -> "error"
      [] OTHER -> "reject"

(* runSandboxOperation from the answer of its fetch on *)
runSandboxOperation_Response ==
    /\ pc = "runSandboxOperation"
    /\ \E res \in OpResponses :
          LET sb == sbs[idx]
              outcome == OperationOutcome(res)
          IN  /\ answer' = [received |-> TRUE, sandboxId |-> sb.id,
                          res |-> res]
              /\ CASE outcome = "reject" ->
                        /\ pc' = "crashed"
                        /\ UNCHANGED <<idx, requests, log>>
                   [] outcome = "exit" ->
                        /\ log' = Append(log, [level |-> "error",
                                                sandboxId |-> sb.id,
                                                text |-> "status statusText"])
                        /\ pc' = "exited"
                        /\ UNCHANGED <<idx, requests>>
                   [] outcome = "info" ->
                        /\ log' = Append(log, [level |-> "info",
                                                sandboxId |-> sb.id,
                                                text |-> "Triggered"])
                        /\ NextTarget
                   [] OTHER ->
                        /\ log' = Append(log, [level |-> "error",
                                                sandboxId |-> sb.id,
                                                text |-> "code error.message"])
                        /\ NextTarget
    /\ UNCHANGED <<cacheVars, calls, runs, sfccAuthToken, sandboxList, cmd,
                   sbs, codeVersions, cv, patches, env, tokenAt, cred,
                   otherUcr>>

(* the tool run again and again for list, start, stop and restart *)
SandboxNext ==
    \/ ProcessStart
    \/ updateToken_Call
    \/ getSfccAuthToken_Response
    \/ updateSandboxList_Call
    \/ getSandboxList_Response
    \/ Command_list
    \/ Command_operation
    \/ runSandboxOperation_Response

Spec == Init /\ [][SandboxNext]_vars

(* The batch under a running clock.  The remote platform lets a token live *)
(* for 30 minutes from the moment it issues it.                            *)
RemoteTokenLifetime == 30 * 60

(* the margin between the life of the token and the time it is cached *)
Margin == RemoteTokenLifetime - TokenTtl

(* the tool is started again at once, just before the cached token         *)
(* expires, or when it has expired                                         *)
ProcessStartSoon ==
    \E d \in {0, TokenTtl - 1, TokenTtl} : ProcessStartAfter(d)

(* time passes while runSandboxOperation awaits the answer of its fetch *)
BatchTick ==
    /\ pc = "runSandboxOperation"
    /\ now + Margin <= tokenAt.handedAt + MaxBatchTicks * Margin
    /\ Tick(Margin)
    /\ UNCHANGED <<calls, cliVars>>

(* the sandbox list of the platform, sorted *)
AllSandboxes ==
    getSandboxList(CHOOSE d \in ArraysOf(RemoteSandboxes) : Len(d) = 3)

(* The installation after a first run, sfcc-d list at time 0, in which the *)
(* platform issued the token t1 and listed its sandboxes: the store holds  *)
(* both entries.                                                           *)
BatchInit ==
    /\ env = Configured
    /\ now = 0
    /\ localStorage =
          [k \in StorageKeys |->
              IF k = "sfccAuthToken"
              THEN JSON_stringify(Str("t1"), ExpiryInstant(0, TokenTtl))
              ELSE JSON_stringify(Arr(AllSandboxes),
                                  ExpiryInstant(0, SandboxListTtl))]
    /\ ucr = [phase |-> "returned", storageKey |-> "sandboxList",
              maxDuration |-> SandboxListTtl, invalidate |-> TRUE,
              startedAt |-> 0, instant |-> ExpiryInstant(0, SandboxListTtl),
              invoked |-> TRUE, computeOutcome |-> "resolved",
              resultValue |-> Arr(AllSandboxes),
              returned |-> Arr(AllSandboxes),
              before |-> localStorage,
              prev |-> [set |-> TRUE, value |-> Arr(AllSandboxes),
                        invalidate |-> FALSE, startedAt |-> 0,
                        finishedAt |-> 0, maxDuration |-> SandboxListTtl]]
    /\ lastStored =
          [k \in StorageKeys |->
              IF k = "sfccAuthToken"
              THEN [set |-> TRUE, value |-> Str("t1"), invalidate |-> FALSE,
                    startedAt |-> 0, finishedAt |-> 0,
                    maxDuration |-> TokenTtl]
              ELSE [set |-> TRUE, value |-> Arr(AllSandboxes),
                    invalidate |-> TRUE, startedAt |-> 0, finishedAt |-> 0,
                    maxDuration |-> SandboxListTtl]]
    /\ calls = 0
    /\ pc = "done"
    /\ runs = 1
    /\ sfccAuthToken = Str("t1")
    /\ sandboxList = Arr(AllSandboxes)
    /\ cmd = [NoCommand EXCEPT !.name = "list"]
    /\ sbs = <<>>
    /\ idx = 0
    /\ requests = <<>>
    /\ log = <<[level |-> "print", list |-> Arr(AllSandboxes)]>>
    /\ codeVersions = Undefined
    /\ cv = [found |-> FALSE]
    /\ patches = <<>>
    /\ answer = [received |-> FALSE]
    /\ tokenAt = [issuedAt |-> 0, handedAt |-> 0]
    /\ cred = NoCred
    /\ otherUcr = NoCall

(* the sandbox list is cached for 14 days and is not fetched again within  *)
(* the few token lifetimes this specification spans                        *)
BatchNext ==
    \/ ProcessStartSoon
    \/ updateToken_Call
    \/ getSfccAuthToken_Response
    \/ updateSandboxList_Call
    \/ Command_operation
    \/ runSandboxOperation_Response
    \/ BatchTick

SpecBatch == BatchInit /\ [][BatchNext]_vars

(* The tool installed with any .env file, also one that lacks a variable,  *)
(* and run again and again for list.                                       *)
ConfigInit ==
    /\ env \in EnvFiles
    /\ now = 0
    /\ localStorage = [k \in StorageKeys |-> Absent]
    /\ ucr = NoCall
    /\ lastStored = [k \in StorageKeys |-> NeverStored]
    /\ calls = 0
    /\ ProcessOff

ConfigNext ==
    \/ ProcessStart
    \/ updateToken_Call
    \/ getSfccAuthToken_Response
    \/ updateSandboxList_Call
    \/ getSandboxList_Response
    \/ Command_list

SpecConfig == ConfigInit /\ [][ConfigNext]_vars

-----------------------------------------------------------------------------
(* Code versions: code-activate <host> <codeVersion> *)

(* The code versions of the instance; active is the id of the active one,  *)
(* or <<>> when none is.  last_modification_time is an ISO time stamp,     *)
(* here one code unit.                                                     *)
RemoteCodeVersions(active) ==
    { [id |-> <<1, 2>>,    last_modification_time |-> <<1>>, active |-> (active = <<1, 2>>)],
      [id |-> <<1, 2, 1>>, last_modification_time |-> <<2>>, active |-> (active = <<1, 2, 1>>)],
      [id |-> <<2>>,       last_modification_time |-> <<3>>, active |-> (active = <<2>>)] }

CodeVersionArrays ==
    UNION { ArraysOf(RemoteCodeVersions(active))
              : active \in { <<>>, <<1, 2>>, <<1, 2, 1>>, <<2>> } }

CodeVersionStrs == { <<1, 2>>, <<1, 2, 1>>, <<2>>, <<2, 2>> }

(* answers of the code_versions endpoint of the instance *)
CodeVersionsResponses ==
    { [rejects |-> FALSE, status |-> 200, json |-> TRUE, isArray |-> TRUE,
       hasError |-> FALSE, data |-> d] : d \in CodeVersionArrays }
    \cup { [rejects |-> TRUE, status |-> 0, json |-> FALSE, isArray |-> FALSE,
            hasError |-> FALSE, data |-> <<>>],
           [rejects |-> FALSE, status |-> 401, json |-> TRUE, isArray |-> FALSE,
            hasError |-> TRUE, data |-> <<>>],
           [rejects |-> FALSE, status |-> 200, json |-> FALSE, isArray |-> FALSE,
            hasError |-> FALSE, data |-> <<>>],
           [rejects |-> FALSE, status |-> 200, json |-> TRUE, isArray |-> FALSE,
            hasError |-> TRUE, data |-> <<>>],
           [rejects |-> FALSE, status |-> 200, json |-> TRUE, isArray |-> FALSE,
            hasError |-> FALSE, data |-> <<>>] }

(* answers to the PATCH that activates a code version *)
PatchResponses ==
    { [rejects |-> TRUE, status |-> 0, json |-> FALSE, fault |-> FALSE],
      [rejects |-> FALSE, status |-> 500, json |-> TRUE, fault |-> TRUE],
      [rejects |-> FALSE, status |-> 200, json |-> FALSE, fault |-> FALSE],
      [rejects |-> FALSE, status |-> 200, json |-> TRUE, fault |-> TRUE],
      [rejects |-> FALSE, status |-> 200, json |-> TRUE, fault |-> FALSE] }

(* getCodeVersions(): codeVersions.sort(by last_modification_time) *)
getCodeVersions(data) == SortByField(data, "last_modification_time")

(* allCodeVersions.find((cv) => cv.id.includes(codeVersion)) *)
FindCodeVersion(allCodeVersions, codeVersion) ==
    LET matching == { i \in 1..Len(allCodeVersions) :
                        includes(allCodeVersions[i].id, codeVersion) }
    IN  IF matching = {} THEN [found |-> FALSE]
        ELSE LET first == CHOOSE i \in matching : \A j \in matching : i <= j
             IN  [found |-> TRUE,
                  id |-> allCodeVersions[first].id,
                  last_modification_time |->
                      allCodeVersions[first].last_modification_time,
                  active |-> allCodeVersions[first].active]

ActivationStep_MissReturns(found) ==
    IF ~found.found \/ found.active THEN "return" ELSE "patch"

ActivationStep_NoActiveCheck(found) ==
    IF ~found.found THEN "exit" ELSE "patch"

(* if (!cv) exit; else if (cv.active) return; otherwise the PATCH *)
ActivationStep(found) ==
    IF ~found.found THEN "exit"
    ELSE IF found.active THEN "return"
    ELSE "patch"

(* program.parse() runs code-activate: getCodeVersions up to its fetch *)
Command_codeActivate ==
    /\ pc = "parse"
    /\ \E codeVersion \in CodeVersionStrs :
          cmd' = [NoCommand EXCEPT !.name = "code-activate",
                                   !.host = <<1>>,
                                   !.codeVersion = codeVersion]
    /\ pc' = "getCodeVersions"
    /\ UNCHANGED <<cacheVars, calls, runs, sfccAuthToken, sandboxList, sbs,
                   idx, requests, log, codeVersions, cv, patches, answer,
                   env, tokenAt, cred, otherUcr>>

(* getCodeVersions from the answer of its fetch on, and activateCodeVersion *)
(* up to its fetch: reverse the array, find the version, decide            *)
getCodeVersions_Response ==
    /\ pc = "getCodeVersions"
    /\ \E res \in CodeVersionsResponses :
          IF res.rejects \/ (res.status = 200 /\ ~res.json)
          THEN /\ pc' = "crashed"
               /\ UNCHANGED <<log, codeVersions, cv, patches>>
          ELSE IF res.status # 200
          THEN /\ pc' = "exited"
               /\ log' = Append(log, [level |-> "error", about |-> "status"])
               /\ UNCHANGED <<codeVersions, cv, patches>>
          ELSE IF ~res.isArray
          THEN /\ IF res.hasError
                  THEN /\ pc' = "exited"
                       /\ log' = Append(log, [level |-> "error", about |-> "body"])
                  ELSE /\ pc' = "crashed"
                       /\ UNCHANGED log
               /\ UNCHANGED <<codeVersions, cv, patches>>
          ELSE LET allCodeVersions == Reverse(getCodeVersions(res.data))
                   found == FindCodeVersion(allCodeVersions, cmd.codeVersion)
                   step == ActivationStep(found)
               IN  /\ codeVersions' = Arr(allCodeVersions)
                   /\ cv' = found
                   /\ CASE step = "exit" ->
                             /\ pc' = "exited"
                             /\ log' = Append(log, [level |-> "error",
                                                    about |-> "not found"])
                             /\ UNCHANGED patches
                        [] step = "return" ->
                             /\ pc' = "done"
                             /\ log' = Append(log, [level |-> "info",
                                                    about |-> "already active"])
                             /\ UNCHANGED patches
                        [] OTHER ->
                             /\ pc' = "activateCodeVersion"
                             /\ patches' = Append(patches, found.id)
                             /\ UNCHANGED log
    /\ UNCHANGED <<cacheVars, calls, runs, sfccAuthToken, sandboxList, cmd,
                   sbs, idx, requests, answer, env, tokenAt, cred, otherUcr>>

(* activateCodeVersion from the answer to its PATCH on *)
activateCodeVersion_Response ==
    /\ pc = "activateCodeVersion"
    /\ \E res \in PatchResponses :
          IF res.rejects \/ (res.status = 200 /\ ~res.json)
          THEN /\ pc' = "crashed"
               /\ UNCHANGED log
          ELSE IF res.status # 200
          THEN /\ pc' = "exited"
               /\ log' = Append(log, [level |-> "error", about |-> "status"])
          ELSE IF res.fault
          THEN /\ pc' = "exited"
               /\ log' = Append(log, [level |-> "error", about |-> "fault"])
          ELSE /\ pc' = "done"
               /\ log' = Append(log, [level |-> "info", about |-> "activated"])
    /\ UNCHANGED <<cacheVars, calls, runs, sfccAuthToken, sandboxList, cmd,
                   sbs, idx, requests, codeVersions, cv, patches, answer,
                   env, tokenAt, cred, otherUcr>>

(* the tool run again and again for code-activate *)
CodeNext ==
    \/ ProcessStart
    \/ updateToken_Call
    \/ getSfccAuthToken_Response
    \/ updateSandboxList_Call
    \/ getSandboxList_Response
    \/ Command_codeActivate
    \/ getCodeVersions_Response
    \/ activateCodeVersion_Response

SpecCode == Init /\ [][CodeNext]_vars

-----------------------------------------------------------------------------
(* Dates: Temporal.PlainDate in the ISO 8601 calendar, as far as cred uses  *)
(* it.  A date is a record of year, month and day; its text is a sequence  *)
(* of UTF-16 code units.  Days are added by way of the day number of the   *)
(* date, counted from 1970-01-01.                                          *)

Hyphen == 45

Colon == 58

Digit0 == 48

IsDigit(c) == c \in Digit0..(Digit0 + 9)

Pad2(n) == <<Digit0 + ((n \div 10) % 10), Digit0 + (n % 10)>>

Pad4(n) == Pad2(n \div 100) \o Pad2(n % 100)

(* the number a run of digits denotes *)
RECURSIVE DigitsValue(_)
DigitsValue(digits) ==
    IF digits = <<>> THEN 0
    ELSE 10 * DigitsValue(SubSeq(digits, 1, Len(digits) - 1))
         + (digits[Len(digits)] - Digit0)

(* the day number of a date of the proleptic Gregorian calendar *)
EpochDays(date) ==
    LET y == IF date.month <= 2 THEN date.year - 1 ELSE date.year
        era == y \div 400
        yoe == y - era * 400
        mp == IF date.month > 2 THEN date.month - 3 ELSE date.month + 9
        doy == (153 * mp + 2) \div 5 + date.day - 1
        doe == yoe * 365 + yoe \div 4 - yoe \div 100 + doy
    IN  era * 146097 + doe - 719468

(* the date of a day number *)
DateOfEpochDays(days) ==
    LET z == days + 719468
        era == z \div 146097
        doe == z - era * 146097
        yoe == (doe - doe \div 1460 + doe \div 36524 - doe \div 146096) \div 365
        doy == doe - (365 * yoe + yoe \div 4 - yoe \div 100)
        mp == (5 * doy + 2) \div 153
        m == IF mp < 10 THEN mp + 3 ELSE mp - 9
    IN  [year |-> yoe + era * 400 + (IF m <= 2 THEN 1 ELSE 0),
         month |-> m,
         day |-> doy - (153 * mp + 2) \div 5 + 1]

(* date.add({ months: n }) for n of -1 and 1, the day constrained to the   *)
(* month it lands in                                                       *)
PlainDate_addMonths(date, n) ==
    LET months == date.year * 12 + (date.month - 1) + n
        y == months \div 12
        m == (months % 12) + 1
        next == [year |-> (months + 1) \div 12,
                 month |-> ((months + 1) % 12) + 1, day |-> 1]
        daysInMonth == EpochDays(next) - EpochDays([year |-> y, month |-> m,
                                                     day |-> 1])
    IN  [year |-> y, month |-> m,
         day |-> IF date.day > daysInMonth THEN daysInMonth ELSE date.day]

(* date.subtract({ days: n }) *)
PlainDate_subtractDays(date, n) == DateOfEpochDays(EpochDays(date) - n)

(* date.with({ day }) *)
PlainDate_withDay(date, day) == [date EXCEPT !.day = day]

(* the fields of the text YYYY-MM-DD *)
ParsedDate(text) ==
    [year |-> DigitsValue(SubSeq(text, 1, 4)),
     month |-> DigitsValue(SubSeq(text, 6, 7)),
     day |-> DigitsValue(SubSeq(text, 9, 10))]

(* Temporal.PlainDate.from(text) throws a RangeError for a text that names *)
(* no date of the calendar                                                 *)
PlainDate_from_throws(text) ==
    LET date == ParsedDate(text)
    IN  \/ date.month \notin 1..12
        \/ date.day < 1
        \/ DateOfEpochDays(EpochDays(date)) # date

PlainDate_from(text) == ParsedDate(text)

(* date.toString() *)
PlainDate_toString(date) ==
    Pad4(date.year) \o <<Hyphen>> \o Pad2(date.month) \o <<Hyphen>>
    \o Pad2(date.day)

(* monthRegex.test(v): /^\d{4}-\d{2}$/ *)
monthRegex_test(v) ==
    /\ Len(v) = 7
    /\ \A i \in {1, 2, 3, 4, 6, 7} : IsDigit(v[i])
    /\ v[5] = Hyphen

(* fromToRegex.test(v): /^\d{4}-\d{2}-\d{2}:\d{4}-\d{2}-\d{2}$/ *)
fromToRegex_test(v) ==
    /\ Len(v) = 21
    /\ \A i \in {1, 2, 3, 4, 6, 7, 9, 10, 12, 13, 14, 15, 17, 18, 20, 21} :
          IsDigit(v[i])
    /\ \A i \in {5, 8, 16, 19} : v[i] = Hyphen
    /\ v[11] = Colon

(* the text "last-month" *)
LastMonth == <<108, 97, 115, 116, Hyphen, 109, 111, 110, 116, 104>>

(* time.split(":"): the pieces of the text between its colons *)
RECURSIVE split(_)
split(text) ==
    IF \A i \in 1..Len(text) : text[i] # Colon THEN <<text>>
    ELSE LET at == CHOOSE i \in 1..Len(text) :
                       text[i] = Colon /\ \A j \in 1..(i - 1) : text[j] # Colon
         IN  <<SubSeq(text, 1, at - 1)>> \o split(SubSeq(text, at + 1, Len(text)))

-----------------------------------------------------------------------------
(* Numbers: the IEEE 754 doubles of JavaScript, as far as cred uses them.   *)
(* A double that is not negative is kept as the numerator of a fraction    *)
(* over 2^54, written in binary with the lowest bit first; every value the *)
(* credit formula meets from 0.3 upwards is such a fraction.  A double     *)
(* that holds a natural number, as minutesUp and minutesDown do, is given  *)
(* as that number.  Each operation computes the exact result and rounds it *)
(* to the 53 significant bits of a double, ties to even.                   *)

FractionBits == 54

Precision == 53

LimbBits == 16

RECURSIVE BitsOf(_)
BitsOf(n) == IF n = 0 THEN <<>> ELSE <<n % 2>> \o BitsOf(n \div 2)

RECURSIVE NumberOf(_)
NumberOf(bits) ==
    IF bits = <<>> THEN 0 ELSE Head(bits) + 2 * NumberOf(Tail(bits))

(* the bits of a number given by its limbs of LimbBits bits, lowest first *)
BitsOfLimbs(limbs) ==
    [i \in 1..(Len(limbs) * LimbBits) |->
        (limbs[(i - 1) \div LimbBits + 1] \div 2 ^ ((i - 1) % LimbBits)) % 2]

(* limbs * n, n a natural number *)
RECURSIVE MulLimbs(_, _, _)
MulLimbs(limbs, n, carry) ==
    IF limbs = <<>>
    THEN IF carry = 0 THEN <<>> ELSE <<carry>>
    ELSE <<(Head(limbs) * n + carry) % 2 ^ LimbBits>>
         \o MulLimbs(Tail(limbs), n, (Head(limbs) * n + carry) \div 2 ^ LimbBits)

(* the position of the highest bit that is set, 0 when none is *)
BitLength(bits) ==
    IF \A i \in 1..Len(bits) : bits[i] = 0 THEN 0
    ELSE CHOOSE i \in 1..Len(bits) :
             bits[i] = 1 /\ \A j \in (i + 1)..Len(bits) : bits[j] = 0

(* round to the nearest number of at most p significant bits, ties to even *)
RoundNearestEven(bits, p) ==
    LET n == BitLength(bits)
        k == n - p
        half == bits[k] = 1
        sticky == \E i \in 1..(k - 1) : bits[i] = 1
        up == half /\ (sticky \/ bits[k + 1] = 1)
        \* adding one at position k + 1 carries up to the first bit not set
        z == IF \A i \in (k + 1)..n : bits[i] = 1 THEN n + 1
             ELSE CHOOSE i \in (k + 1)..n :
                      bits[i] = 0 /\ \A j \in (k + 1)..(i - 1) : bits[j] = 1
    IN  IF k <= 0 THEN SubSeq(bits, 1, n)
        ELSE IF ~up THEN [i \in 1..n |-> IF i <= k THEN 0 ELSE bits[i]]
        ELSE [i \in 1..z |-> IF i < z THEN 0 ELSE 1]
             \o SubSeq(bits, z + 1, n)

(* the literal 0.3: the double 0x1.3333333333333p-2, the fraction          *)
(* 0x13333333333333 / 2^54, a little less than three tenths; in limbs      *)
(* 0x3333, 0x3333, 0x3333, 0x0013                                           *)
Double_0_3 == <<13107, 13107, 13107, 19>>

(* n * x for the double of the natural number n and the double x given by  *)
(* the limbs of its numerator                                              *)
DoubleMul(n, x) ==
    RoundNearestEven(BitsOfLimbs(MulLimbs(x, n, 0)), Precision)

IntegerPart(a) == NumberOf(SubSeq(a, FractionBits + 1, Len(a)))

FractionPart(a) ==
    [i \in 1..FractionBits |-> IF i <= Len(a) THEN a[i] ELSE 0]

(* n + a for the double of the natural number n and the double a *)
DoubleAdd(n, a) ==
    RoundNearestEven(FractionPart(a) \o BitsOf(n + IntegerPart(a)), Precision)

Math_ceil_Floor(a) == IntegerPart(a)

(* Math.ceil(a) *)
Math_ceil(a) ==
    IntegerPart(a) + (IF \E i \in 1..FractionBits : FractionPart(a)[i] = 1
                      THEN 1 ELSE 0)

(* Math.ceil(usage.minutesUp + usage.minutesDown * 0.3) *)
CreditsUsed(minutesUp, minutesDown) ==
    Math_ceil(DoubleAdd(minutesUp, DoubleMul(minutesDown, Double_0_3)))

-----------------------------------------------------------------------------
(* Credits: cred <realm> <time> *)

(* the realm argument: "zzzz", and "z", which is too short *)
Realms == { <<122, 122, 122, 122>>, <<122>> }

Years == {1900, 2000, 2023, 2024, 9999}

MonthText(year, month) == Pad4(year) \o <<Hyphen>> \o Pad2(month)

DateText(year, month, day) == MonthText(year, month) \o <<Hyphen>> \o Pad2(day)

(* the time argument: last-month, a month (also the months 00 and 13,      *)
(* which monthRegex lets through), a range of two dates (also of dates     *)
(* that do not exist or are out of order), and texts of neither form       *)
TimeArguments ==
    {LastMonth}
    \cup { MonthText(y, m) : y \in Years, m \in 0..13 }
    \cup { DateText(2024, 1, 15) \o <<Colon>> \o DateText(2024, 2, 20),
           DateText(2024, 2, 30) \o <<Colon>> \o DateText(2023, 13, 1) }
    \cup { <<Digit0 + 2, Digit0, Digit0 + 2, Digit0 + 4, Hyphen, Digit0 + 3>>,
           DateText(2024, 1, 15) }

(* the day Temporal.Now.plainDateISO() returns *)
Todays ==
    { [year |-> 2024, month |-> 3, day |-> 31],
      [year |-> 2024, month |-> 1, day |-> 15],
      [year |-> 2023, month |-> 3, day |-> 1] }

(* and over 100 minutes and the minutes of 30 days *)
MinuteValues == (0..MaxMinutes) \cup {100, 43200}

(* answers of the usage endpoint: no JSON answer (fetch or res.json()      *)
(* throws), a code other than 200, or the usage of the realm               *)
UsageResponses ==
    { [rejects |-> TRUE, code |-> 0, minutesUp |-> 0, minutesDown |-> 0],
      [rejects |-> FALSE, code |-> 401, minutesUp |-> 0, minutesDown |-> 0] }
    \cup { [rejects |-> FALSE, code |-> 200, minutesUp |-> u, minutesDown |-> d]
             : u \in MinuteValues, d \in MinuteValues }

(* the argument parsers of cred: a realm of 4 characters, a time of one of *)
(* the three forms                                                         *)
ArgumentsAccepted(realm, time) ==
    /\ Len(realm) = 4
    /\ time = LastMonth \/ monthRegex_test(time) \/ fromToRegex_test(time)

(* the from and to of last-month *)
LastMonthRange(today) ==
    LET from == PlainDate_addMonths(PlainDate_withDay(today, 1), -1)
        to == PlainDate_subtractDays(PlainDate_addMonths(from, 1), 1)
    IN  [from |-> PlainDate_toString(from), to |-> PlainDate_toString(to)]

MonthRange_ToIsFirstOfNext(time) ==
    LET from == time \o <<Hyphen, Digit0, Digit0 + 1>>
        to == PlainDate_addMonths(PlainDate_from(from), 1)
    IN  [from |-> from, to |-> PlainDate_toString(to)]

(* the from and to of a month YYYY-MM *)
MonthRange(time) ==
    LET from == time \o <<Hyphen, Digit0, Digit0 + 1>>
        to == PlainDate_subtractDays(
                  PlainDate_addMonths(PlainDate_from(from), 1), 1)
    IN  [from |-> from, to |-> PlainDate_toString(to)]

(* the from and to of a range: [from, to] = time.split(":") *)
FromToRange(time) == [from |-> split(time)[1], to |-> split(time)[2]]

(* program.parse() runs cred: the argument parsers, then the action up to  *)
(* the fetch of getRealmCredits                                            *)
Command_cred ==
    /\ pc = "parse"
    /\ \E realm \in Realms, time \in TimeArguments, today \in Todays :
          LET monthThrows == /\ time # LastMonth
                             /\ monthRegex_test(time)
                             /\ PlainDate_from_throws(
                                    time \o <<Hyphen, Digit0, Digit0 + 1>>)
              range == IF time = LastMonth THEN LastMonthRange(today)
                       ELSE IF monthRegex_test(time) THEN MonthRange(time)
                       ELSE FromToRange(time)
          IN  /\ cmd' = [NoCommand EXCEPT !.name = "cred"]
              /\ IF ~ArgumentsAccepted(realm, time) \/ monthThrows
                 THEN /\ pc' = "crashed"
                      /\ cred' = [cred EXCEPT !.realm = Str(realm),
                                              !.time = Str(time)]
                 ELSE /\ pc' = "getRealmCredits"
                      /\ cred' = [cred EXCEPT
                                    !.realm = Str(realm),
                                    !.time = Str(time),
                                    !.from = Str(range.from),
                                    !.to = Str(range.to),
                                    !.sent = Append(@, [realm |-> realm,
                                                        from |-> range.from,
                                                        to |-> range.to,
                                                        token |-> sfccAuthToken])]
    /\ UNCHANGED <<cacheVars, calls, runs, sfccAuthToken, sandboxList, sbs,
                   idx, requests, log, codeVersions, cv, patches, answer,
                   env, tokenAt, otherUcr>>

(* getRealmCredits from the answer of its fetch on, and the rest of the    *)
(* action: the message with the credits used                               *)
getRealmCredits_Response ==
    /\ pc = "getRealmCredits"
    /\ \E res \in UsageResponses :
          IF res.rejects \/ res.code # 200
          THEN /\ pc' = "exited"
               /\ log' = Append(log, [level |-> "error"])
               /\ UNCHANGED cred
          ELSE /\ pc' = "done"
               /\ cred' = [cred EXCEPT !.usage = [minutesUp |-> res.minutesUp,
                                                  minutesDown |-> res.minutesDown]]
               /\ log' = Append(log,
                     [level |-> "info",
                      from |-> cred.from,
                      to |-> cred.to,
                      minutesUp |-> res.minutesUp,
                      minutesDown |-> res.minutesDown,
                      credits |-> CreditsUsed(res.minutesUp, res.minutesDown)])
    /\ UNCHANGED <<cacheVars, calls, runs, sfccAuthToken, sandboxList, cmd,
                   sbs, idx, requests, codeVersions, cv, patches, answer,
                   env, tokenAt, otherUcr>>

(* The installation in its first run, at time 0, after run() has obtained  *)
(* the token t1 and the sandbox list and before program.parse().           *)
CredInit ==
    /\ env = Configured
    /\ now = 0
    /\ localStorage =
          [k \in StorageKeys |->
              IF k = "sfccAuthToken"
              THEN JSON_stringify(Str("t1"), ExpiryInstant(0, TokenTtl))
              ELSE JSON_stringify(Arr(AllSandboxes),
                                  ExpiryInstant(0, SandboxListTtl))]
    /\ ucr = [phase |-> "returned", storageKey |-> "sandboxList",
              maxDuration |-> SandboxListTtl, invalidate |-> FALSE,
              startedAt |-> 0, instant |-> ExpiryInstant(0, SandboxListTtl),
              invoked |-> TRUE, computeOutcome |-> "resolved",
              resultValue |-> Arr(AllSandboxes),
              returned |-> Arr(AllSandboxes),
              before |-> [localStorage EXCEPT !["sandboxList"] = Absent],
              prev |-> NeverStored]
    /\ lastStored =
          [k \in StorageKeys |->
              IF k = "sfccAuthToken"
              THEN [set |-> TRUE, value |-> Str("t1"), invalidate |-> FALSE,
                    startedAt |-> 0, finishedAt |-> 0,
                    maxDuration |-> TokenTtl]
              ELSE [set |-> TRUE, value |-> Arr(AllSandboxes),
                    invalidate |-> FALSE, startedAt |-> 0, finishedAt |-> 0,
                    maxDuration |-> SandboxListTtl]]
    /\ calls = 0
    /\ pc = "parse"
    /\ runs = 1
    /\ sfccAuthToken = Str("t1")
    /\ sandboxList = Arr(AllSandboxes)
    /\ cmd = NoCommand
    /\ sbs = <<>>
    /\ idx = 0
    /\ requests = <<>>
    /\ log = <<>>
    /\ codeVersions = Undefined
    /\ cv = [found |-> FALSE]
    /\ patches = <<>>
    /\ answer = [received |-> FALSE]
    /\ tokenAt = [issuedAt |-> 0, handedAt |-> 0]
    /\ cred = NoCred
    /\ otherUcr = NoCall

CredNext ==
    \/ Command_cred
    \/ getRealmCredits_Response

SpecCred == CredInit /\ [][CredNext]_vars

-----------------------------------------------------------------------------
(* The cache on its own: any sequence of calls, for every key, duration    *)
(* and invalidate flag, with result() taking any time and ending any way.  *)

ComputeResults == {Undefined, Str("t1"), Str("t2")}

CacheCall ==
    /\ ucr.phase # "awaiting"
    /\ calls < MaxCalls
    /\ calls' = calls + 1
    /\ \E k \in StorageKeys, d \in 1..MaxDuration, inv \in BOOLEAN :
          useCachedResult_Begin(k, d, inv)
    /\ UNCHANGED cliVars

ComputeReturns ==
    /\ \E v \in ComputeResults : useCachedResult_Resolve(v)
    /\ UNCHANGED <<calls, cliVars>>

ComputeThrows ==
    /\ useCachedResult_Reject
    /\ UNCHANGED <<calls, cliVars>>

ComputeExits ==
    /\ useCachedResult_Exit
    /\ UNCHANGED <<calls, cliVars>>

ClockTick ==
    /\ now < MaxTicks
    /\ Tick(1)
    /\ UNCHANGED <<calls, cliVars>>

CacheNext ==
    \/ CacheCall
    \/ ComputeReturns
    \/ ComputeThrows
    \/ ComputeExits
    \/ ClockTick

SpecCache == Init /\ [][CacheNext]_vars

(* The cache started on a store whose entry for one key was damaged from   *)
(* outside the program (the store is a file on disk).                      *)
MalformedTexts == {EmptyText, GarbageText, NullText, EmptyObjectText}

CorruptInit ==
    /\ env = Configured
    /\ now = 0
    /\ \E k \in StorageKeys, text \in MalformedTexts :
          localStorage = [j \in StorageKeys |-> IF j = k THEN text ELSE Absent]
    /\ ucr = NoCall
    /\ lastStored = [k \in StorageKeys |-> NeverStored]
    /\ calls = 0
    /\ ProcessOff

SpecCorrupt == CorruptInit /\ [][CacheNext]_vars

(* Two invocations of the tool running at the same time on one store, with *)
(* no lock: each is in a call of useCachedResult of its own, and the       *)
(* operating system runs now the one, now the other.  ucr is the call of   *)
(* the invocation that is running, otherUcr the call of the one waiting.   *)
Switch ==
    /\ ucr # otherUcr
    /\ ucr' = otherUcr
    /\ otherUcr' = ucr
    /\ UNCHANGED <<now, localStorage, lastStored, calls, pc, runs,
                   sfccAuthToken, sandboxList, cmd, sbs, idx, requests, log,
                   codeVersions, cv, patches, answer, env, tokenAt, cred>>

(* the time each key is cached for: the token for less than the list *)
RaceDuration(storageKey) ==
    IF storageKey = "sfccAuthToken" THEN MaxDuration - 1 ELSE MaxDuration

(* The invocation that is running calls useCachedResult, as updateToken    *)
(* does (never invalidating) or as updateSandboxList does (invalidating or *)
(* not).                                                                   *)
RaceCall ==
    /\ ucr.phase # "awaiting"
    /\ calls < MaxCalls
    /\ calls' = calls + 1
    /\ \E k \in StorageKeys, inv \in BOOLEAN :
          /\ k = "sfccAuthToken" => ~inv
          /\ useCachedResult_Begin(k, RaceDuration(k), inv)
    /\ UNCHANGED cliVars

RaceNext ==
    \/ RaceCall
    \/ ComputeReturns
    \/ ComputeThrows
    \/ ComputeExits
    \/ ClockTick
    \/ Switch

SpecRace == Init /\ [][RaceNext]_vars

-----------------------------------------------------------------------------
(* Claims about the expiring cache *)

Called == ucr.phase # "idle"

StoredBefore == ucr.before[ucr.storageKey]

WellFormed(text) == text.kind = "object" /\ "exp" \in text.keys

(* C1 as stated: after a call with forceInvalidate=false has computed and  *)
(* stored a value, a call for the same key with forceInvalidate=false made *)
(* less than ttl after that call succeeded returns the same value and does *)
(* not invoke f.                                                           *)
C1_WithinTtlOfSuccess ==
    (/\ Called
     /\ ~ucr.invalidate
     /\ ucr.prev.set
     /\ ~ucr.prev.invalidate
     /\ ucr.startedAt < ucr.prev.finishedAt + ucr.prev.maxDuration)
    => (/\ ~ucr.invoked
        /\ ucr.phase = "returned"
        /\ ucr.returned = ucr.prev.value)

(* C1 amended: the same, for a second call made less than ttl after the    *)
(* first call read the clock, which is before it invoked f.                *)
C1_WithinTtlOfStart ==
    (/\ Called
     /\ ~ucr.invalidate
     /\ ucr.prev.set
     /\ ~ucr.prev.invalidate
     /\ ucr.startedAt < ucr.prev.startedAt + ucr.prev.maxDuration)
    => (/\ ~ucr.invoked
        /\ ucr.phase = "returned"
        /\ ucr.returned = ucr.prev.value)

C1_Witness ==
    /\ Called
    /\ ~ucr.invalidate
    /\ ucr.prev.set
    /\ ~ucr.prev.invalidate
    /\ ucr.prev.finishedAt > ucr.prev.startedAt
    /\ ucr.startedAt >= ucr.prev.finishedAt
    /\ ucr.startedAt < ucr.prev.startedAt + ucr.prev.maxDuration
    /\ ucr.phase = "returned"
    /\ ucr.returned = Str("t1")

(* C2: a call made when the stored entry's expiry is at or before the      *)
(* clock invokes the compute function, and what it returns is the result   *)
(* of that computation.                                                    *)
C2_ExpiredEntryRecomputed ==
    (/\ Called
     /\ WellFormed(StoredBefore)
     /\ ucr.startedAt >= StoredBefore.exp)
    => (/\ ucr.invoked
        /\ ucr.phase = "returned" =>
              /\ ucr.computeOutcome = "resolved"
              /\ ucr.returned = ucr.resultValue)

C2_Witness ==
    /\ Called
    /\ ~ucr.invalidate
    /\ WellFormed(StoredBefore)
    /\ ucr.startedAt = StoredBefore.exp
    /\ ucr.phase = "returned"
    /\ ucr.returned # ParsedValue(StoredBefore)

(* C3: a call with forceInvalidate=true invokes the compute function even  *)
(* when a fresh entry is stored, and when the computation returns the      *)
(* entry of the key holds the new value and the expiry of this call.       *)
C3_ForceInvalidateRecomputes ==
    (Called /\ ucr.invalidate)
    => (/\ ucr.invoked
        /\ ucr.phase = "returned" =>
              /\ ucr.returned = ucr.resultValue
              /\ WellFormed(localStorage[ucr.storageKey])
              /\ ParsedValue(localStorage[ucr.storageKey]) = ucr.resultValue
              /\ localStorage[ucr.storageKey].exp = ucr.startedAt + ucr.maxDuration)

C3_Witness ==
    /\ Called
    /\ ucr.invalidate
    /\ WellFormed(StoredBefore)
    /\ ucr.startedAt < StoredBefore.exp
    /\ ucr.phase = "returned"
    /\ ParsedValue(localStorage[ucr.storageKey]) # ParsedValue(StoredBefore)
    /\ localStorage[ucr.storageKey].exp # StoredBefore.exp

(* C4: with forceInvalidate=false and a stored entry that has not expired, *)
(* the call returns the stored value, does not invoke the compute          *)
(* function, and leaves every key of the store as it was.                  *)
C4_FreshHitNoSideEffect ==
    (/\ Called
     /\ ~ucr.invalidate
     /\ WellFormed(StoredBefore)
     /\ ucr.startedAt < StoredBefore.exp)
    => (/\ ucr.phase = "returned"
        /\ ~ucr.invoked
        /\ ucr.returned = ParsedValue(StoredBefore)
        /\ localStorage = ucr.before)

C4_Witness ==
    /\ Called
    /\ ~ucr.invalidate
    /\ WellFormed(StoredBefore)
    /\ ucr.startedAt < StoredBefore.exp
    /\ ucr.startedAt > 0
    /\ ucr.phase = "returned"
    /\ ucr.returned = Str("t2")

(* C5: when the compute function fails (throws, or ends the process), the  *)
(* call does not return a value and the store is as it was before the call.*)
C5_ComputeFailureLeavesStore ==
    (Called /\ ucr.computeOutcome \in {"rejected", "exited"})
    => (/\ ucr.phase \in {"threw", "exited"}
        /\ localStorage = ucr.before)

C5_Witness ==
    /\ Called
    /\ ucr.computeOutcome = "rejected"
    /\ WellFormed(StoredBefore)
    /\ ucr.phase = "threw"
    /\ localStorage[ucr.storageKey] = StoredBefore

(* C6: a malformed or unparsable stored entry is a miss: the call with     *)
(* forceInvalidate=false invokes the compute function and never fails      *)
(* because of the entry; when the computation returns, its value is stored *)
(* and returned.                                                           *)
C6_MalformedEntryIsMiss ==
    (/\ Called
     /\ ~ucr.invalidate
     /\ StoredBefore \in MalformedTexts)
    => (/\ ucr.invoked
        /\ ucr.computeOutcome = "resolved" =>
              /\ ucr.phase = "returned"
              /\ ucr.returned = ucr.resultValue
              /\ ParsedValue(localStorage[ucr.storageKey]) = ucr.resultValue)

(* C23: the expiry of a stored entry is fixed from the clock reading taken *)
(* before the computation is started: every entry the cache wrote expires  *)
(* at (the instant its call read the clock) + ttl, however long the        *)
(* computation took, and a value is served from the store only less than   *)
(* ttl after the moment its computation began.                             *)
C23_ExpiryFixedBeforeCompute ==
    /\ \A k \in StorageKeys :
          lastStored[k].set
          => (/\ WellFormed(localStorage[k])
              /\ ParsedValue(localStorage[k]) = lastStored[k].value
              /\ localStorage[k].exp
                    = lastStored[k].startedAt + lastStored[k].maxDuration
              /\ lastStored[k].startedAt <= lastStored[k].finishedAt)
    /\ (Called /\ ucr.phase = "returned" /\ ~ucr.invoked)
       => (/\ ucr.prev.set
           /\ ucr.returned = ucr.prev.value
           /\ ucr.startedAt < ucr.prev.startedAt + ucr.prev.maxDuration)

C23_Witness ==
    /\ Called
    /\ ~ucr.invalidate
    /\ ucr.invoked
    /\ ucr.prev.set
    /\ ucr.prev.finishedAt > ucr.prev.startedAt
    /\ ucr.startedAt >= ucr.prev.startedAt + ucr.prev.maxDuration
    /\ ucr.startedAt < ucr.prev.finishedAt + ucr.prev.maxDuration
    /\ StoredBefore.exp = ucr.prev.startedAt + ucr.prev.maxDuration

(* the entry of a key is whole: the value and the expiry of one call, the  *)
(* last that stored under the key, or no entry when none did               *)
WholeEntry(text, stored) ==
    IF stored.set
    THEN text = JSON_stringify(stored.value,
                               stored.startedAt + stored.maxDuration)
    ELSE text = Absent

(* a call of an invocation either was served a whole entry that had not    *)
(* expired, or went on to compute                                          *)
ServedOrRecomputed(call) ==
    call.phase # "idle"
    => (/\ call.phase # "threw" \/ call.computeOutcome = "rejected"
        /\ WholeEntry(call.before[call.storageKey], call.prev)
        /\ ~call.invoked
           => (/\ call.phase = "returned"
               /\ ~call.invalidate
               /\ call.prev.set
               /\ call.returned = call.prev.value
               /\ call.startedAt < call.prev.startedAt + call.prev.maxDuration)
        /\ (call.invoked /\ call.phase = "returned")
           => call.returned = call.resultValue)

(* C25: with two invocations running at the same time on the same store,   *)
(* without a lock, every entry in the store at any time is a whole pair of *)
(* value and expiry from one successful computation of one invocation,     *)
(* never the value of one and the expiry of another; and every call of     *)
(* either invocation returns such an entry while it has not expired, or    *)
(* computes anew.                                                          *)
C25_RacingWritesStayWhole ==
    /\ \A k \in StorageKeys : WholeEntry(localStorage[k], lastStored[k])
    /\ ServedOrRecomputed(ucr)
    /\ ServedOrRecomputed(otherUcr)

C25_Witness ==
    /\ ucr.computeOutcome = "resolved"
    /\ otherUcr.computeOutcome = "resolved"
    /\ ucr.storageKey = otherUcr.storageKey
    /\ ucr.before[ucr.storageKey] = Absent
    /\ otherUcr.before[ucr.storageKey] = Absent
    /\ ucr.startedAt < otherUcr.startedAt
    /\ ucr.resultValue # otherUcr.resultValue
    /\ localStorage[ucr.storageKey]
          = JSON_stringify(ucr.resultValue, ucr.instant)

-----------------------------------------------------------------------------
(* Claims about the sandbox commands *)

Range(seq) == { seq[i] : i \in 1..Len(seq) }

Count(seq, level) == Cardinality({ i \in 1..Len(seq) : seq[i].level = level })

(* s occurs in h: at some offset the code units of h are those of s *)
Contains(h, s) ==
    \E off \in 0..(Len(h) - Len(s)) :
        \A i \in 1..Len(s) : h[off + i] = s[i]

(* a comes before b, or is b, in the order of the code units *)
LexLE(a, b) ==
    \/ \E k \in 1..Len(a) :
          /\ k <= Len(b)
          /\ \A j \in 1..(k - 1) : a[j] = b[j]
          /\ a[k] < b[k]
    \/ /\ Len(a) <= Len(b)
       /\ \A j \in 1..Len(a) : a[j] = b[j]

SortedByHostName(list) ==
    \A i, j \in 1..Len(list) : i < j => LexLE(list[i].hostName, list[j].hostName)

(* a start, stop or restart command, run with a token, has ended *)
BatchOver ==
    /\ cmd.name = "operation"
    /\ sfccAuthToken.type = "string"
    /\ pc \in {"done", "exited"}

(* C7: in a batch, a target whose operation fails (a non-success HTTP      *)
(* status, or a body code other than 201) does not halt the batch: when    *)
(* the command is over every resolved sandbox has been sent its request,   *)
(* and with exactly one failure reported the other N-1 are reported as     *)
(* successes.                                                              *)
C7_FailureNeverHaltsBatch ==
    BatchOver
    => (/\ \A i \in 1..Len(sbs) :
              \E j \in 1..Len(requests) : requests[j].sandboxId = sbs[i].id
        /\ Count(log, "error") = 1 => Count(log, "info") = Len(sbs) - 1)

(* C8: the sandboxes a start, stop or restart command resolves are exactly *)
(* the sandboxes of the list whose hostName contains the search string or  *)
(* whose id is the search string, each once; none when nothing matches.    *)
C8_ResolveExactlyMatching ==
    cmd.name = "operation"
    => (/\ \A sb \in Range(sandboxList.arr) :
              sb \in Range(sbs)
                  <=> (Contains(sb.hostName, cmd.findStr) \/ sb.id = cmd.findStr)
        /\ Range(sbs) \subseteq Range(sandboxList.arr)
        /\ Cardinality(Range(sbs)) = Len(sbs))

C8_Witness ==
    /\ cmd.name = "operation"
    /\ \E sb \in Range(sbs) :
          ~Contains(sb.hostName, cmd.findStr) /\ sb.id = cmd.findStr
    /\ \E sb \in Range(sbs) :
          Contains(sb.hostName, cmd.findStr) /\ sb.id # cmd.findStr
    /\ \E sb \in Range(sandboxList.arr) : sb \notin Range(sbs)

(* C9: the sandbox list stored in the cache, and the list the process      *)
(* holds, are in ascending order of hostName at every time.                *)
C9_SandboxListSorted ==
    /\ (/\ localStorage["sandboxList"].kind = "object"
        /\ ParsedValue(localStorage["sandboxList"]).type = "array")
       => SortedByHostName(ParsedValue(localStorage["sandboxList"]).arr)
    /\ sandboxList.type = "array" => SortedByHostName(sandboxList.arr)

C9_Witness ==
    /\ runs = 2
    /\ cmd.name = "list"
    /\ pc = "done"
    /\ ucr.invalidate
    /\ ucr.before["sandboxList"].kind = "object"
    /\ sandboxList.type = "array"
    /\ Len(sandboxList.arr) = 3
    /\ ParsedValue(localStorage["sandboxList"]) = sandboxList
    /\ ParsedValue(ucr.before["sandboxList"]) # sandboxList

(* C11: when the authentication call fails -- by a non-success status, a   *)
(* malformed body or a body with no access_token -- get_token fails        *)
(* fatally: no entry is written under the token key, no token value is     *)
(* handed on, and no further remote call is made.  So the steps after      *)
(* updateToken are reached only with a token that is a string, and the     *)
(* token key holds nothing but an entry with a string as its value.        *)
C11_AuthFailureIsFatal ==
    /\ pc \in {"updateSandboxList", "getSandboxList", "parse",
               "runSandboxOperation", "done", "exited"}
       => sfccAuthToken.type = "string"
    /\ localStorage["sfccAuthToken"] # Absent
       => ParsedValue(localStorage["sfccAuthToken"]).type = "string"

(* the messages logged about the sandbox the last answer was for *)
Reported(level) ==
    { log[i].text : i \in { j \in 1..Len(log) :
                               /\ log[j].level = level
                               /\ log[j].sandboxId = answer.sandboxId } }

C13_ListShowsGroundTruth ==
    /\ (cmd.name = "list" /\ pc # "updateSandboxList")
       => (/\ ucr.storageKey = "sandboxList"
           /\ ucr.invalidate
           /\ ucr.invoked
           /\ ucr.startedAt = now)
    /\ (cmd.name = "list" /\ pc = "done")
       => (/\ ucr.computeOutcome = "resolved"
           /\ log = <<[level |-> "print", list |-> ucr.resultValue]>>
           /\ sandboxList = ucr.resultValue
           /\ ParsedValue(localStorage["sandboxList"]) = ucr.resultValue
           /\ localStorage["sandboxList"].exp = now + SandboxListTtl)
    /\ (\E i \in 1..Len(log) : log[i].level = "print")
       => (cmd.name = "list" /\ pc = "done")

C13_Witness ==
    /\ cmd.name = "list"
    /\ pc = "done"
    /\ NotExpired(ucr.before["sandboxList"], now)
    /\ ParsedValue(ucr.before["sandboxList"]).type = "array"
    /\ ParsedValue(ucr.before["sandboxList"]) # ucr.resultValue
    /\ ucr.before["sandboxList"].exp < localStorage["sandboxList"].exp
    /\ log = <<[level |-> "print", list |-> ucr.resultValue]>>

(* C14: when no sandbox of the list matches the given string, start, stop  *)
(* and restart send no operation request at all and the invocation does    *)
(* not fail: the command ends normally, nothing is logged as an error.     *)
C14_ResolutionMissIsNoOp ==
    (/\ cmd.name = "operation"
     /\ \A sb \in Range(sandboxList.arr) :
           ~Contains(sb.hostName, cmd.findStr) /\ sb.id # cmd.findStr)
    => (/\ requests = <<>>
        /\ ~answer.received
        /\ log = <<>>
        /\ pc = "done")

C14_Witness ==
    /\ cmd.name = "operation"
    /\ Len(sandboxList.arr) = 3
    /\ cmd.findStr # <<>>
    /\ \A sb \in Range(sandboxList.arr) :
          ~Contains(sb.hostName, cmd.findStr) /\ sb.id # cmd.findStr
    /\ pc = "done"

(* C17: when the configuration supplies no client id or no client secret, *)
(* the invocation fails fatally at startup and no remote call              *)
(* (authentication, sandbox list or operation) is attempted: the process   *)
(* is never waiting for an answer of the remote platform.                  *)
C17_MissingCredentialsAreFatal ==
    (env.client_id = Undefined \/ env.client_secret = Undefined)
    => pc \notin AwaitingRemote

(* the requests of the batch that carry a token *)
TokenRequests == { i \in 1..Len(requests) : requests[i].token.type = "string" }

(* C18 as stated: the token TTL is shorter than the remote lifetime, and   *)
(* every request of a batch is made with a token whose age since it was    *)
(* issued is less than the remote lifetime, however long the batch runs.   *)
C18_BatchTokenNeverStale ==
    /\ TokenTtl < RemoteTokenLifetime
    /\ \A i \in TokenRequests :
          requests[i].sentAt - tokenAt.issuedAt < RemoteTokenLifetime

(* C18, amended: the token TTL is shorter than the remote lifetime, so the *)
(* token updateToken hands to run() is at that moment younger than the     *)
(* TTL, and every request of the batch sent no later than the margin       *)
(* (remote lifetime minus TTL) after that moment is made with a token      *)
(* younger than the remote lifetime.                                       *)
C18_TokenFreshWhenHandedOut ==
    /\ TokenTtl < RemoteTokenLifetime
    /\ (pc \in {"updateSandboxList", "parse", "runSandboxOperation"}
        /\ sfccAuthToken.type = "string")
       => tokenAt.handedAt - tokenAt.issuedAt < TokenTtl
    /\ \A i \in TokenRequests :
          requests[i].sentAt - tokenAt.handedAt <= Margin
          => requests[i].sentAt - tokenAt.issuedAt < RemoteTokenLifetime

C18_Witness ==
    /\ tokenAt.handedAt - tokenAt.issuedAt = TokenTtl - 1
    /\ Len(requests) = 3
    /\ requests[2].token.type = "string"
    /\ requests[2].sentAt - tokenAt.handedAt = Margin
    /\ requests[3].sentAt - tokenAt.issuedAt >= RemoteTokenLifetime

(* the place of the sandbox sb in the list *)
PlaceIn(list, sb) == CHOOSE i \in 1..Len(list) : list[i] = sb

(* C21: in a batch the operation requests are issued one at a time, in the *)
(* order of the cached list as resolve preserved it: the k-th request is   *)
(* for the k-th resolved sandbox, the resolved sandboxes stand in the      *)
(* order they have in the list (ascending hostName), and every request     *)
(* but the last one sent has been answered and reported, as a success or a *)
(* failure, before the next was sent; at most one request is in flight.    *)
C21_RequestsOneAtATime ==
    cmd.name = "operation"
    => (/\ \A i, j \in 1..Len(sbs) :
              i < j => /\ PlaceIn(sandboxList.arr, sbs[i])
                            < PlaceIn(sandboxList.arr, sbs[j])
                       /\ LexLE(sbs[i].hostName, sbs[j].hostName)
        /\ Len(requests) = idx
        /\ Len(requests) <= Len(sbs)
        /\ \A k \in 1..Len(requests) : requests[k].sandboxId = sbs[k].id
        /\ Len(requests) <= Len(log) + 1
        /\ \A k \in 1..Len(log) : log[k].sandboxId = requests[k].sandboxId
        /\ pc = "runSandboxOperation" => Len(log) = Len(requests) - 1)

C21_Witness ==
    /\ cmd.name = "operation"
    /\ pc = "runSandboxOperation"
    /\ Len(sbs) = 3
    /\ Len(requests) = 3
    /\ Len(log) = 2
    /\ log[1].level = "error"
    /\ log[2].level = "info"
    /\ requests[3].sandboxId = sbs[3].id

(* the sandboxes of the list that match the search string of the command *)
Matches ==
    { sb \in Range(sandboxList.arr) :
        Contains(sb.hostName, cmd.findStr) \/ sb.id = cmd.findStr }

(* C24: in one start, stop or restart invocation at most one operation     *)
(* request is issued per sandbox of the list, every request is for a       *)
(* sandbox that matches the search string and carries the operation of the *)
(* command, no request is sent a second time after a failure, and the      *)
(* number of requests is at most the number of matches.                    *)
C24_AtMostOneRequestPerMatch ==
    /\ cmd.name = "operation"
       => (/\ \A i, j \in 1..Len(requests) :
                 requests[i].sandboxId = requests[j].sandboxId => i = j
           /\ \A i \in 1..Len(requests) :
                 /\ \E sb \in Matches : sb.id = requests[i].sandboxId
                 /\ requests[i].operation = cmd.operation
           /\ Len(requests) <= Cardinality(Matches))
    /\ cmd.name # "operation" => requests = <<>>

C24_Witness ==
    /\ cmd.name = "operation"
    /\ pc = "done"
    /\ Len(sandboxList.arr) = 3
    /\ Cardinality(Matches) = 2
    /\ Len(requests) = 2
    /\ Len(log) = 2
    /\ log[1].level = "error"
    /\ log[2].level = "info"

-----------------------------------------------------------------------------
(* Claims about code-activate *)

(* C10: when the version code-activate selected is already active, no      *)
(* PATCH is sent and the command ends normally with an informational       *)
(* message: it neither exits with an error nor fails.                      *)
C10_AlreadyActiveIsNoOp ==
    (cmd.name = "code-activate" /\ cv.found /\ cv.active)
    => (/\ patches = <<>>
        /\ pc = "done"
        /\ log = <<[level |-> "info", about |-> "already active"]>>)

C10_Witness ==
    /\ cmd.name = "code-activate"
    /\ cv.found
    /\ cv.active
    /\ pc = "done"
    /\ \E other \in Range(codeVersions.arr) :
          /\ other.id # cv.id
          /\ Contains(other.id, cmd.codeVersion)

(* C15: in code-activate, when no code version id of the instance         *)
(* contains the given string, the command is a hard error: the process     *)
(* exits with a failure and no PATCH is sent for any version.              *)
C15_NoMatchIsHardError ==
    (/\ cmd.name = "code-activate"
     /\ codeVersions.type = "array"
     /\ \A version \in Range(codeVersions.arr) :
           ~Contains(version.id, cmd.codeVersion))
    => (/\ pc = "exited"
        /\ log = <<[level |-> "error", about |-> "not found"]>>
        /\ patches = <<>>)

C15_Witness ==
    /\ cmd.name = "code-activate"
    /\ codeVersions.type = "array"
    /\ Len(codeVersions.arr) = 3
    /\ \A version \in Range(codeVersions.arr) :
          ~Contains(version.id, cmd.codeVersion)
    /\ pc = "exited"

(* C16: in code-activate, when several code version ids contain the given  *)
(* string, the version acted on is a matching one with the greatest        *)
(* last_modification_time; exactly one version is targeted by the PATCH,   *)
(* never an older matching one.                                            *)
C16_NewestMatchSelected ==
    (cmd.name = "code-activate" /\ codeVersions.type = "array")
    => LET matching == { version \in Range(codeVersions.arr) :
                           Contains(version.id, cmd.codeVersion) }
       IN  /\ matching # {} <=> cv.found
           /\ cv.found
              => (/\ \E version \in matching :
                        /\ version.id = cv.id
                        /\ version.last_modification_time
                              = cv.last_modification_time
                  /\ \A version \in matching :
                        LexLE(version.last_modification_time,
                              cv.last_modification_time))
           /\ Len(patches) <= 1
           /\ patches # <<>> => (cv.found /\ patches = <<cv.id>>)

C16_Witness ==
    /\ cmd.name = "code-activate"
    /\ codeVersions.type = "array"
    /\ Cardinality({ version \in Range(codeVersions.arr) :
                       Contains(version.id, cmd.codeVersion) }) = 3
    /\ patches = <<cv.id>>
    /\ pc = "done"

(* C22: activateCodeVersion reverses a copy and never mutates the list it  *)
(* was given: after it returns (the version was already active, or was     *)
(* activated), the array of code versions the caller passed in is still in *)
(* ascending order of last_modification_time.                              *)
C22_CallerListStaysAscending ==
    (/\ cmd.name = "code-activate"
     /\ codeVersions.type = "array"
     /\ pc = "done")
    => \A i, j \in 1..Len(codeVersions.arr) :
          i < j => LexLE(codeVersions.arr[i].last_modification_time,
                         codeVersions.arr[j].last_modification_time)

-----------------------------------------------------------------------------
(* Claims about cred *)

(* C19: for minutesUp and minutesDown that are natural numbers, the        *)
(* credits cred reports are the least integer that is not less than        *)
(* (10 * minutesUp + 3 * minutesDown) / 10; minutesUp = 100 and            *)
(* minutesDown = 10 give 103.                                              *)
C19_CreditsAreCeiling ==
    \A i \in 1..Len(log) :
        (cmd.name = "cred" /\ log[i].level = "info")
        => LET tenths == 10 * log[i].minutesUp + 3 * log[i].minutesDown
           IN  /\ 10 * log[i].credits >= tenths
               /\ 10 * (log[i].credits - 1) < tenths

C19_Witness ==
    /\ cmd.name = "cred"
    /\ pc = "done"
    /\ cred.usage = [minutesUp |-> 100, minutesDown |-> 10]
    /\ log[1].credits = 103

(* the number of days of a month of the Gregorian calendar *)
DaysOfMonth(year, month) ==
    CASE month \in {1, 3, 5, 7, 8, 10, 12} -> 31
      [] month \in {4, 6, 9, 11} -> 30
      [] OTHER -> IF year % 4 = 0 /\ (year % 100 # 0 \/ year % 400 = 0)
                  THEN 29 ELSE 28

(* the time argument names a month of the calendar, as YYYY-MM *)
IsMonth(time) ==
    /\ Len(time) = 7
    /\ time[5] = Hyphen
    /\ \A i \in {1, 2, 3, 4, 6, 7} : time[i] \in Digit0..(Digit0 + 9)
    /\ DigitsValue(SubSeq(time, 6, 7)) \in 1..12

(* the time argument has the form YYYY-MM-DD:YYYY-MM-DD *)
IsFromTo(time) ==
    /\ Len(time) = 21
    /\ time[11] = Colon
    /\ \A i \in {5, 8, 16, 19} : time[i] = Hyphen
    /\ \A i \in (1..21) \ {5, 8, 11, 16, 19} :
          time[i] \in Digit0..(Digit0 + 9)

(* cred was given a realm of four characters and this time argument *)
CredRunWith(time) ==
    /\ cmd.name = "cred"
    /\ Len(cred.realm.str) = 4
    /\ cred.time.str = time

(* C20: for a time argument that is a month YYYY-MM of the calendar the    *)
(* usage call is sent with from the first and to the last day of that      *)
(* month; for an argument YYYY-MM-DD:YYYY-MM-DD the two dates are passed   *)
(* on as they are, as from and to; an invocation sends exactly one usage   *)
(* call.                                                                   *)
C20_TimeRangeNormalised ==
    /\ \A time \in TimeArguments :
          (CredRunWith(time) /\ IsMonth(time))
          => LET year == DigitsValue(SubSeq(time, 1, 4))
                 month == DigitsValue(SubSeq(time, 6, 7))
             IN  /\ Len(cred.sent) = 1
                 /\ cred.sent[1].from = time \o <<Hyphen, Digit0, Digit0 + 1>>
                 /\ cred.sent[1].to
                      = time \o <<Hyphen>> \o Pad2(DaysOfMonth(year, month))
    /\ \A time \in TimeArguments :
          (CredRunWith(time) /\ IsFromTo(time))
          => (/\ Len(cred.sent) = 1
              /\ cred.sent[1].from = SubSeq(time, 1, 10)
              /\ cred.sent[1].to = SubSeq(time, 12, 21))
    /\ Len(cred.sent) <= 1
    /\ (cmd.name = "cred" /\ pc \in {"getRealmCredits", "done", "exited"})
       => Len(cred.sent) = 1

C20_Witness ==
    /\ CredRunWith(MonthText(1900, 2))
    /\ pc = "done"
    /\ cred.sent[1].from = DateText(1900, 2, 1)
    /\ cred.sent[1].to = DateText(1900, 2, 28)

====
